---- MODULE Spec2Model ----
(***************************************************************************)
(* Model of src/index.js: the two POST /generate-video handlers of the     *)
(* ffmpeg-api service.                                                     *)
(*                                                                         *)
(*   "fixed"  lines 37-92   files audio.mp3, img<i>.jpg, ffmpeg_input.txt  *)
(*                          and output.mp4 under fixed names               *)
(*   "ws"     lines 165-254 one mkdtemp workspace per request, upload to   *)
(*                          the storage service, rmSync of the workspace   *)
(*                                                                         *)
(* A process runs one of the two handlers (variable handler).  JavaScript  *)
(* runs a handler from one await to the next without interleaving, so an   *)
(* action is the synchronous segment that a settled await resumes; the     *)
(* catch block, being synchronous, is part of the action whose await       *)
(* rejected.  What the outside world decides (a fetch, a subprocess, a     *)
(* storage call, a file-system call that may throw) is an input of the     *)
(* action.                                                                 *)
(*                                                                         *)
(* A handler whose promise rejects (an exception leaving the catch block)  *)
(* ends in pc = "rejected": the handler itself sends nothing more.  What   *)
(* the framework does with the rejection is not code of src/index.js.      *)
(***************************************************************************)
EXTENDS Integers, Sequences, FiniteSets, TLC

\* ------------------------------------------------------------------ bounds
\* images arrays of 0..MaxImages URLs are sent to the handlers
MaxImages == 2
\* number of distinct names mkdtempSync can return
NumDirs == 2
\* the encoder exits with a code in 0..MaxExitCode
MaxExitCode == 1
\* durations are counted in ticks; a millisecond is TicksPerMs ticks
TicksPerMs == 2
\* the probe reports a duration of 0..MaxDuration ticks
MaxDuration == 24
\* image counts of the concat plans built under SpecPlan
MaxPlanImages == 4
\* chunks of the stderr stream of the probe under SpecProbe
MaxChunks == 3

\* the requests in flight in one process
Reqs == {1, 2}
Dirs == 1..NumDirs
NoDir == 0
NoOwner == 0
ExitCodes == 0..MaxExitCode
\* the duration probed under the main specification; SpecPlan ranges over all
Durations == {MaxDuration}
PlanDurations == 0..MaxDuration

\* ------------------------------------------------------------------- state
VARIABLES
    handler,    \* "fixed" | "ws": which app.post("/generate-video") is registered
    pc,         \* per request: the await the handler is suspended at
    body,       \* per request: req.body as far as the handler reads it
    tmpDir,     \* per request: tmpDir (ws handler), NoDir before mkdtempSync
    idx,        \* per request: the loop variable i of the download loop (1-based)
    inflight,   \* per request: image downloads of Promise.all not yet settled
    duration,   \* per request: the value getAudioDuration resolved with, in ticks
    plan,       \* per request: the entries of listTxt as written to the concat file
    err,        \* per request: the error the catch block caught
    responses,  \* per request: the responses sent on res, in order
    dirOwner,   \* per directory name: the request whose workspace it is, or NoOwner
    cwdOwner,   \* per fixed file name: the request that last wrote it, or NoOwner
    rmCalls,    \* per request: number of fs.rmSync(tmpDir, ...) calls made
    trace,      \* per request: the stages started, in order
    failedAt,   \* per request: the stages that failed
    clash,      \* some request wrote or deleted a file of another, live request
    crashed,    \* an exception escaped an event handler: the process is gone
    probe,      \* the getAudioDuration call that SpecProbe follows event by event
    outFile,    \* per directory name: the bytes of its output.mp4, NoBytes if none
    upload      \* per request: the locals of lines 218-239 and what was sent

vars == <<handler, pc, body, tmpDir, idx, inflight, duration, plan, err,
          responses, dirOwner, cwdOwner, rmCalls, trace, failedAt, clash, crashed,
          probe, outFile, upload>>

\* ------------------------------------------------------------ error values
\* an Error is <<message, detail>>
NoErr == <<"none", 0>>
DownloadErr(i) == <<"Failed to download", i>>
PipelineErr(i) == <<"stream pipeline failed", i>>
ParseErr == <<"Could not parse audio duration", 0>>
SpawnErr == <<"spawn error", 0>>
WriteErr == <<"writeFileSync failed", 0>>
ExitErr(code) == <<"ffmpeg exited", code>>
AuthErr == <<"authorize failed", 0>>
UploadUrlErr == <<"getUploadUrl failed", 0>>
HashErr == <<"read stream error", 0>>
StatErr == <<"statSync failed", 0>>
UploadErr == <<"B2 upload failed", 0>>
TransportErr == <<"fetch failed", 0>>
RmErr == <<"rmSync failed", 0>>
LogErr == <<"logMem failed", 0>>

\* responses
Resp400 == [status |-> 400, error |-> <<"bad request", 0>>, videoUrl |-> FALSE]
Resp500(e) == [status |-> 500, error |-> e, videoUrl |-> FALSE]
Resp200 == [status |-> 200, error |-> NoErr, videoUrl |-> TRUE]

\* the files of the first handler (lines 46, 50, 59, 71)
FixedFiles ==
    {<<"audio.mp3", 0>>, <<"ffmpeg_input.txt", 0>>, <<"output.mp4", 0>>}
        \cup {<<"img.jpg", i>> : i \in 1..MaxImages}

\* stages of the ws handler
Stage(name, i) == [stage |-> name, i |-> i]

\* ------------------------------------------------------- request validation
\* a request body: images is an array or not, its length, audioUrl truthy or not
Bodies ==
    [isArray : {TRUE}, len : 0..MaxImages, audioUrl : BOOLEAN]
        \cup [isArray : {FALSE}, len : {0}, audioUrl : BOOLEAN]

\* req.body of a request that has not arrived
NoBody == [isArray |-> FALSE, len |-> 0, audioUrl |-> FALSE]

\* Validate without the audioUrl check of lines 170-171
ValidateImagesOnly(b) == b.isArray /\ b.len # 0

\* lines 168-171 (and 39-44): TRUE when the body passes both checks
Validate(b) ==
    /\ b.isArray /\ b.len # 0
    /\ b.audioUrl

\* ------------------------------------------------- outcomes of awaited calls
DownloadOutcomes == {"ok", "notOk", "netFail", "pipeFail"}
ProbeOutcomes == {"duration", "noMarker", "error"}
EncoderEvents == {"exit", "error"}
CallOutcomes == {"ok", "fail"}
UploadOutcomes == {"ok", "notOk", "netFail"}
TailOutcomes == {"ok", "throwBeforeSend", "throwAfterSend"}

\* downloadFile without the res.ok check of line 137
DownloadFileUnchecked(out, i) ==
    CASE out = "netFail" -> TransportErr
      [] out = "pipeFail" -> PipelineErr(i)
      [] OTHER -> NoErr

\* downloadFile (lines 135-139): the error it throws, NoErr when it returns
DownloadFile(out, i) ==
    CASE out = "netFail" -> TransportErr
      [] out = "notOk" -> DownloadErr(i)
      [] out = "pipeFail" -> PipelineErr(i)
      [] OTHER -> NoErr

\* getAudioDuration (lines 141-153): the error it rejects with
GetAudioDuration(out) ==
    CASE out = "error" -> SpawnErr
      [] out = "noMarker" -> ParseErr
      [] OTHER -> NoErr

\* the encoder promise (lines 198-213): the error it rejects with
EncoderPromise(ev, code) ==
    IF ev = "error" THEN SpawnErr
    ELSE IF code = 0 THEN NoErr ELSE ExitErr(code)

\* the upload request without the uploadResp.ok check of line 236
UploadFetchUnchecked(out) == IF out = "netFail" THEN TransportErr ELSE NoErr

\* the upload request (lines 224-236): the error thrown
UploadFetch(out) ==
    CASE out = "netFail" -> TransportErr
      [] out = "notOk" -> UploadErr
      [] OTHER -> NoErr

\* ---------------------------------------------------------- the concat plan
\* a formatting that cuts the digits after the third instead of rounding
ToFixed3Truncating(num, den, tieUp) == num \div den

\* Number.prototype.toFixed(3) of num/den milliseconds, as a count of
\* thousandths: the nearest one; tieUp is the side an exact .5 falls to once
\* the quotient is a double
ToFixed3(num, den, tieUp) ==
    LET q == num \div den
        rem == num % den
    IN  IF 2 * rem > den THEN q + 1
        ELSE IF 2 * rem < den THEN q
        ELSE IF tieUp THEN q + 1 ELSE q

\* lines 189-192: one entry per image file, each with perImage.toFixed(3)
ConcatList(n, d, tieUp) ==
    [i \in 1..n |-> [file |-> i, dur |-> ToFixed3(d, n * TicksPerMs, tieUp)]]

\* lines 55-58: the first handler appends the last file once more, no duration
ConcatListFixed(n, d, tieUp) ==
    Append(ConcatList(n, d, tieUp), [file |-> n, dur |-> -1])

\* ------------------------------------------------------ workspace and catch
\* a removal that returns without removing anything
RmSyncSkipped(fs, d, ok) == [fs |-> fs, threw |-> FALSE]

\* fs.rmSync(d, {recursive: true, force: true}): a missing path is ignored;
\* an existing one is removed, or the call throws and the directory stays
RmSync(fs, d, ok) ==
    IF fs[d] = NoOwner THEN [fs |-> fs, threw |-> FALSE]
    ELSE IF ok THEN [fs |-> [fs EXCEPT ![d] = NoOwner], threw |-> FALSE]
    ELSE [fs |-> fs, threw |-> TRUE]

\* a send that writes a response whether or not one was sent before
SendAgain(resp, r) == [resp |-> Append(resp, r), threw |-> FALSE]

\* res.status(..).json(..): throws once a response was sent (headers sent)
Send(resp, r) ==
    IF resp = <<>> THEN [resp |-> <<r>>, threw |-> FALSE]
    ELSE [resp |-> resp, threw |-> TRUE]

\* the catch block (lines 248-253) run on context c with the caught error e
CatchBlock(c, e, rmOk) ==
    LET rm == RmSync(c.fs, c.dir, rmOk)
        snd == Send(c.resp, Resp500(e))
    IN  IF rm.threw
        THEN [fs |-> rm.fs, resp |-> c.resp, calls |-> c.calls + 1,
              pc |-> "rejected", err |-> e]
        ELSE [fs |-> rm.fs, resp |-> snd.resp, calls |-> c.calls + 1,
              pc |-> IF snd.threw THEN "rejected" ELSE "done", err |-> e]

\* the end of the try block (lines 239-246) run on context c
SuccessTail(c, rmOk1, tail, rmOk2) ==
    LET rm == RmSync(c.fs, c.dir, rmOk1)
        c1 == [c EXCEPT !.fs = rm.fs, !.calls = c.calls + 1]
        snd == Send(c1.resp, Resp200)
        c2 == [c1 EXCEPT !.resp = snd.resp]
    IN  IF rm.threw THEN CatchBlock(c1, RmErr, rmOk2)
        ELSE IF tail = "throwBeforeSend" THEN CatchBlock(c1, LogErr, rmOk2)
        ELSE IF tail = "throwAfterSend" THEN CatchBlock(c2, LogErr, rmOk2)
        ELSE [fs |-> c2.fs, resp |-> c2.resp, calls |-> c2.calls,
              pc |-> "done", err |-> NoErr]

Ctx(r) ==
    [fs |-> dirOwner, resp |-> responses[r], calls |-> rmCalls[r], dir |-> tmpDir[r]]

\* the handler of request r ends its segment in the state res
Settle(r, res) ==
    /\ dirOwner' = res.fs
    /\ responses' = [responses EXCEPT ![r] = res.resp]
    /\ rmCalls' = [rmCalls EXCEPT ![r] = res.calls]
    /\ pc' = [pc EXCEPT ![r] = res.pc]
    /\ err' = [err EXCEPT ![r] = res.err]

\* the stage the await of request r belongs to
Current(r) == Stage(pc[r], IF pc[r] = "fetchImg" THEN idx[r] ELSE 0)

\* the awaited call of request r rejected with e: the catch block runs
Fail(r, e, rmOk) ==
    /\ Settle(r, CatchBlock(Ctx(r), e, rmOk))
    /\ UNCHANGED <<trace, idx>>

\* the awaited call of request r resolved: the steps sts are started in turn
\* and the handler awaits the last of them
Start(r, sts) ==
    /\ pc' = [pc EXCEPT ![r] = sts[Len(sts)].stage]
    /\ idx' = [idx EXCEPT ![r] = sts[Len(sts)].i]
    /\ trace' = [trace EXCEPT ![r] = @ \o sts]
    /\ UNCHANGED <<err, responses, dirOwner, rmCalls>>

\* the outside world made the steps sts of request r fail
Record(r, sts) == failedAt' = [failedAt EXCEPT ![r] = @ \cup sts]

\* the try block with computeSHA1 moved before b2.authorize
NextStageHashFirst(st, n) ==
    CASE st.stage = "fetchAudio" -> Stage("fetchImg", 1)
      [] st.stage = "fetchImg" ->
            IF st.i < n THEN Stage("fetchImg", st.i + 1) ELSE Stage("probe", 0)
      [] st.stage = "probe" -> Stage("encode", 0)
      [] st.stage = "encode" -> Stage("hash", 0)
      [] st.stage = "hash" -> Stage("authorize", 0)
      [] st.stage = "authorize" -> Stage("getUploadUrl", 0)
      [] st.stage = "getUploadUrl" -> Stage("upload", 0)
      [] OTHER -> Stage("done", 0)

\* lines 181-224: the call the try block makes after stage st has returned
NextStage(st, n) ==
    CASE st.stage = "fetchAudio" -> Stage("fetchImg", 1)
      [] st.stage = "fetchImg" ->
            IF st.i < n THEN Stage("fetchImg", st.i + 1) ELSE Stage("probe", 0)
      [] st.stage = "probe" -> Stage("encode", 0)
      [] st.stage = "encode" -> Stage("authorize", 0)
      [] st.stage = "authorize" -> Stage("getUploadUrl", 0)
      [] st.stage = "getUploadUrl" -> Stage("hash", 0)
      [] st.stage = "hash" -> Stage("upload", 0)
      [] OTHER -> Stage("done", 0)

\* --------------------------------------------------- the upload (218-239)
\* the bytes of an output file are named after the encoder run that wrote them
NoBytes == 0

\* authRes.data.downloadUrl as the storage service may return it
DownloadBases == {"https://f000", "https://f001"}
\* process.env.B2_BUCKET_NAME
BucketName == "bucket"

\* an object name: its directory, the uuid of the file and the separator
\* between them as written in the string
NoName == [dir |-> "", uuid |-> 0, sep |-> ""]

\* line 221: `videos/${uuidv4()}.mp4`
FileName(u) == [dir |-> "videos", uuid |-> u, sep |-> "/"]

\* encodeURIComponent (line 228) escapes the slash and leaves the rest of
\* the name as it is
EncodeURIComponent(name) ==
    [name EXCEPT !.sep = IF @ = "/" THEN "%2F" ELSE @]

NoUrl == [base |-> "", bucket |-> "", name |-> NoName]

\* the public URL with the name as sent in the X-Bz-File-Name header
PublicUrlEncoded(base, name) ==
    [base |-> base, bucket |-> BucketName, name |-> EncodeURIComponent(name)]

\* line 239: `${downloadUrl}/file/${process.env.B2_BUCKET_NAME}/${fileName}`
PublicUrl(base, name) ==
    [base |-> base, bucket |-> BucketName, name |-> name]

\* nothing of lines 218-239 has run
NoUpload ==
    [downloadUrl |-> "", fileName |-> NoName, sha1 |-> NoBytes, size |-> NoBytes,
     header |-> NoName, sent |-> FALSE, body |-> NoBytes, publicUrl |-> NoUrl]

\* ------------------------------------------- getAudioDuration (141-153)
\* what the subprocess writes on stderr comes in chunks: other text, the
\* label `Duration:`, or a time h:m:s (s in ticks)
Text == [kind |-> "text", h |-> 0, m |-> 0, s |-> 0]
Label == [kind |-> "label", h |-> 0, m |-> 0, s |-> 0]
Time(h, m, s) == [kind |-> "time", h |-> h, m |-> m, s |-> s]
Chunks == {Text, Label} \cup {Time(h, m, MaxDuration) : h \in 0..1, m \in 0..1}

\* the strings of at most MaxChunks chunks
Streams == UNION {[1..n -> Chunks] : n \in 0..MaxChunks}

\* stderr.match(/Duration:\s*(\d+):(\d+):(\d+\.\d+)/) (line 147): the places
\* where the label is followed by a time
Matches(stderr) ==
    {i \in 1..(Len(stderr) - 1) :
        stderr[i].kind = "label" /\ stderr[i + 1].kind = "time"}

\* the match the regular expression returns: the leftmost one
Match(stderr) ==
    LET i == CHOOSE j \in Matches(stderr) : \A k \in Matches(stderr) : j <= k
    IN  stderr[i + 1]

\* line 149: +m[1]*3600 + +m[2]*60 + +m[3], in ticks
Seconds(m) == (m.h * 3600 + m.m * 60) * 1000 * TicksPerMs + m.s

\* no getAudioDuration call is followed
NoProbe ==
    [started |-> FALSE, stream |-> <<>>, read |-> 0, events |-> {},
     promise |-> <<"none", 0>>, settled |-> 0]

\* resolve or reject (lines 148-151): only a pending promise is settled
SettlePromise(p, outcome) ==
    IF p.promise[1] = "pending"
    THEN [p EXCEPT !.promise = outcome, !.settled = @ + 1]
    ELSE p

\* what the data listener has appended to stderr so far (line 145)
Stderr(p) == SubSeq(p.stream, 1, p.read)

\* the exit listener (lines 146-150) run on the call p
ExitListener(p) ==
    IF Matches(Stderr(p)) = {}
    THEN SettlePromise(p, <<"rejected", ParseErr>>)
    ELSE SettlePromise(p, <<"resolved", Seconds(Match(Stderr(p)))>>)

\* line 145: a data event delivers the next chunk of stderr
ProbeData ==
    /\ probe.started /\ probe.read < Len(probe.stream)
    /\ probe' = [probe EXCEPT !.read = @ + 1]
    /\ UNCHANGED <<handler, outFile, upload, pc, body, tmpDir, idx, inflight, duration, plan, err,
                   responses, dirOwner, cwdOwner, rmCalls, trace, failedAt, clash,
                   crashed>>

\* lines 146-150: the exit event, once per subprocess, whatever the code; it
\* does not wait for the chunks still to be delivered
ProbeExit(code) ==
    /\ probe.promise[1] # "none" /\ "exit" \notin probe.events
    /\ probe.started \/ "error" \in probe.events
    /\ probe' = [ExitListener(probe) EXCEPT !.events = @ \cup {"exit"}]
    /\ UNCHANGED <<handler, outFile, upload, pc, body, tmpDir, idx, inflight, duration, plan, err,
                   responses, dirOwner, cwdOwner, rmCalls, trace, failedAt, clash,
                   crashed>>

\* line 151: the error event of a subprocess that could not be started
ProbeError ==
    /\ probe.promise[1] # "none" /\ ~probe.started /\ probe.events = {}
    /\ probe' = [SettlePromise(probe, <<"rejected", SpawnErr>>)
                    EXCEPT !.events = @ \cup {"error"}]
    /\ UNCHANGED <<handler, outFile, upload, pc, body, tmpDir, idx, inflight, duration, plan, err,
                   responses, dirOwner, cwdOwner, rmCalls, trace, failedAt, clash,
                   crashed>>

\* ------------------------------------------------------------ initial state
Init ==
    /\ handler \in {"fixed", "ws"}
    /\ pc = [r \in Reqs |-> "idle"]
    /\ body = [r \in Reqs |-> NoBody]
    /\ tmpDir = [r \in Reqs |-> NoDir]
    /\ idx = [r \in Reqs |-> 0]
    /\ inflight = [r \in Reqs |-> {}]
    /\ duration = [r \in Reqs |-> 0]
    /\ plan = [r \in Reqs |-> <<>>]
    /\ err = [r \in Reqs |-> NoErr]
    /\ responses = [r \in Reqs |-> <<>>]
    /\ dirOwner = [d \in Dirs |-> NoOwner]
    /\ cwdOwner = [f \in FixedFiles |-> NoOwner]
    /\ rmCalls = [r \in Reqs |-> 0]
    /\ trace = [r \in Reqs |-> <<>>]
    /\ failedAt = [r \in Reqs |-> {}]
    /\ clash = FALSE
    /\ crashed = FALSE
    /\ probe = NoProbe
    /\ outFile = [d \in Dirs |-> NoBytes]
    /\ upload = [r \in Reqs |-> NoUpload]

\* images.length of request r
NImages(r) == body[r].len

\* a request whose handler or downloads can still act
Live(r) == pc[r] \notin {"idle", "done", "rejected"} \/ inflight[r] # {}

\* request r acts on its workspace while that name is another live request's
ForeignDir(r) ==
    /\ tmpDir[r] # NoDir
    /\ dirOwner[tmpDir[r]] \notin {NoOwner, r}
    /\ Live(dirOwner[tmpDir[r]])

\* the names no directory has
FreeDirs == {d \in Dirs : dirOwner[d] = NoOwner}

\* a mkdtempSync that returns the same name to every caller
MkdtempShared == CHOOSE d \in Dirs : \A e \in Dirs : d <= e

\* uuidv4() (line 221): a value no earlier call returned
Uuidv4 == 1 + Cardinality({q \in Reqs : upload[q].fileName # NoName})

\* fs.mkdtempSync (line 173) returns a name that no directory has; the names
\* being interchangeable, the least of them stands for any
MkdtempSync == CHOOSE d \in FreeDirs : \A e \in FreeDirs : d <= e

\* ------------------------------------------- the workspace handler (165-254)
\* lines 166-181: validation, mkdtempSync, the audio download is started
WsRequest(r, b, mkOk) ==
    /\ handler = "ws" /\ ~crashed /\ pc[r] = "idle"
    /\ IF ~Validate(b)
       THEN /\ responses' = [responses EXCEPT ![r] = Send(@, Resp400).resp]
            /\ pc' = [pc EXCEPT ![r] = "done"]
            /\ UNCHANGED <<tmpDir, dirOwner, trace, outFile>>
       ELSE IF ~mkOk \/ FreeDirs = {}
       THEN \* mkdtempSync throws outside the try block
            /\ pc' = [pc EXCEPT ![r] = "rejected"]
            /\ UNCHANGED <<responses, tmpDir, dirOwner, trace, outFile>>
       ELSE /\ tmpDir' = [tmpDir EXCEPT ![r] = MkdtempSync]
            /\ dirOwner' = [dirOwner EXCEPT ![MkdtempSync] = r]
            /\ pc' = [pc EXCEPT ![r] = "fetchAudio"]
            /\ trace' = [trace EXCEPT ![r] = <<Stage("fetchAudio", 0)>>]
            /\ outFile' = [outFile EXCEPT ![MkdtempSync] = NoBytes]
            /\ UNCHANGED responses
    /\ body' = [body EXCEPT ![r] = b]
    /\ UNCHANGED <<handler, probe, upload, idx, inflight, duration, plan, err, cwdOwner, rmCalls,
                   failedAt, clash, crashed>>

\* lines 181-188: a download settled; the next one, or the probe, is started
WsDownloaded(r, out, rmOk) ==
    /\ handler = "ws" /\ ~crashed /\ pc[r] \in {"fetchAudio", "fetchImg"}
    /\ LET e == DownloadFile(out, idx[r])
       IN  IF e # NoErr THEN Fail(r, e, rmOk)
           ELSE Start(r, <<NextStage(Current(r), NImages(r))>>)
    /\ Record(r, IF out = "ok" THEN {} ELSE {Current(r)})
    /\ clash' = (clash \/ ForeignDir(r))
    /\ UNCHANGED <<handler, probe, outFile, upload, body, tmpDir, inflight, duration, plan, cwdOwner, crashed>>

\* lines 188-213: the probe settled; the concat list is written and the
\* encoder spawned
WsProbed(r, out, d, tieUp, wOk, rmOk) ==
    /\ handler = "ws" /\ ~crashed /\ pc[r] = "probe"
    /\ LET e == GetAudioDuration(out)
       IN  IF e # NoErr
           THEN /\ Fail(r, e, rmOk)
                /\ Record(r, {Current(r)})
                /\ UNCHANGED <<duration, plan>>
           ELSE /\ duration' = [duration EXCEPT ![r] = d]
                /\ IF wOk
                   THEN /\ plan' = [plan EXCEPT ![r] = ConcatList(NImages(r), d, tieUp)]
                        /\ Start(r, <<Stage("plan", 0), NextStage(Current(r), NImages(r))>>)
                        /\ Record(r, IF out = "duration" THEN {} ELSE {Current(r)})
                   ELSE \* fs.writeFileSync throws
                        /\ Settle(r, CatchBlock(Ctx(r), WriteErr, rmOk))
                        /\ trace' = [trace EXCEPT ![r] = Append(@, Stage("plan", 0))]
                        /\ Record(r, {Stage("plan", 0)})
                        /\ UNCHANGED <<plan, idx>>
    /\ clash' = (clash \/ ForeignDir(r))
    /\ UNCHANGED <<handler, probe, outFile, upload, body, tmpDir, inflight, cwdOwner, crashed>>

\* lines 198-218: the encoder emitted error or exit; b2.authorize is called.
\* An encoder that ran has written output.mp4 in the workspace (line 206)
WsEncoded(r, ev, code, rmOk) ==
    /\ handler = "ws" /\ ~crashed /\ pc[r] = "encode"
    /\ outFile' = IF ev = "exit" THEN [outFile EXCEPT ![tmpDir[r]] = r] ELSE outFile
    /\ LET e == EncoderPromise(ev, code)
       IN  IF e # NoErr THEN Fail(r, e, rmOk)
           ELSE Start(r, <<NextStage(Current(r), NImages(r))>>)
    /\ Record(r, IF ev = "exit" /\ code = 0 THEN {} ELSE {Current(r)})
    /\ clash' = (clash \/ ForeignDir(r))
    /\ UNCHANGED <<handler, probe, upload, body, tmpDir, inflight, duration, plan, cwdOwner, crashed>>

\* lines 218-222: b2.authorize or b2.getUploadUrl settled; the first gives
\* downloadUrl, after the second fileName is made
WsStorageCall(r, out, base, rmOk) ==
    /\ handler = "ws" /\ ~crashed /\ pc[r] \in {"authorize", "getUploadUrl"}
    /\ IF out = "fail"
       THEN /\ Fail(r, IF pc[r] = "authorize" THEN AuthErr ELSE UploadUrlErr, rmOk)
            /\ UNCHANGED upload
       ELSE /\ Start(r, <<NextStage(Current(r), NImages(r))>>)
            /\ upload' = [upload EXCEPT ![r] =
                            IF pc[r] = "authorize"
                            THEN [@ EXCEPT !.downloadUrl = base]
                            ELSE [@ EXCEPT !.fileName = FileName(Uuidv4)]]
    /\ Record(r, IF out = "ok" THEN {} ELSE {Current(r)})
    /\ UNCHANGED <<handler, probe, outFile, body, tmpDir, inflight, duration, plan,
                   cwdOwner, clash, crashed>>

\* lines 222-235: computeSHA1 settled with the digest of the bytes it read;
\* statSync reads the size, then the upload is started with its headers
WsHashed(r, out, statOk, rmOk) ==
    /\ handler = "ws" /\ ~crashed /\ pc[r] = "hash"
    /\ IF out = "fail"
       THEN /\ Fail(r, HashErr, rmOk)
            /\ Record(r, {Current(r)})
            /\ UNCHANGED upload
       ELSE IF statOk
       THEN /\ Start(r, <<Stage("stat", 0), NextStage(Current(r), NImages(r))>>)
            /\ Record(r, {})
            /\ upload' = [upload EXCEPT ![r] =
                            [@ EXCEPT !.sha1 = outFile[tmpDir[r]],
                                      !.size = outFile[tmpDir[r]],
                                      !.header = EncodeURIComponent(upload[r].fileName)]]
       ELSE \* fs.statSync throws
            /\ Settle(r, CatchBlock(Ctx(r), StatErr, rmOk))
            /\ trace' = [trace EXCEPT ![r] = Append(@, Stage("stat", 0))]
            /\ Record(r, {Stage("stat", 0)})
            /\ UNCHANGED <<idx, upload>>
    /\ clash' = (clash \/ ForeignDir(r))
    /\ UNCHANGED <<handler, probe, outFile, body, tmpDir, inflight, duration, plan,
                   cwdOwner, crashed>>

\* lines 224-246: the upload settled, the body having been streamed from
\* the output file unless the request never got through; publicUrl, cleanup
\* and the success response
WsUploaded(r, out, rmOk1, tail, rmOk2) ==
    /\ handler = "ws" /\ ~crashed /\ pc[r] = "upload"
    /\ LET e == UploadFetch(out)
           streamed == IF out = "netFail" THEN upload[r]
                       ELSE [upload[r] EXCEPT !.sent = TRUE,
                                              !.body = outFile[tmpDir[r]]]
       IN  IF e # NoErr
           THEN /\ Fail(r, e, rmOk1)
                /\ upload' = [upload EXCEPT ![r] = streamed]
           ELSE /\ Settle(r, SuccessTail(Ctx(r), rmOk1, tail, rmOk2))
                /\ upload' = [upload EXCEPT ![r] =
                                [streamed EXCEPT !.publicUrl =
                                    PublicUrl(streamed.downloadUrl, streamed.fileName)]]
                /\ UNCHANGED <<trace, idx>>
    /\ Record(r, IF out = "ok" THEN {} ELSE {Current(r)})
    /\ clash' = (clash \/ ForeignDir(r))
    /\ UNCHANGED <<handler, probe, outFile, body, tmpDir, inflight, duration, plan,
                   cwdOwner, crashed>>

WsNext ==
    \/ \E r \in Reqs, b \in Bodies, mkOk \in BOOLEAN : WsRequest(r, b, mkOk)
    \/ \E r \in Reqs, out \in DownloadOutcomes, rmOk \in BOOLEAN :
          WsDownloaded(r, out, rmOk)
    \/ \E r \in Reqs, out \in ProbeOutcomes, d \in Durations,
          tieUp \in BOOLEAN, wOk \in BOOLEAN, rmOk \in BOOLEAN :
          WsProbed(r, out, d, tieUp, wOk, rmOk)
    \/ \E r \in Reqs, ev \in EncoderEvents, code \in ExitCodes, rmOk \in BOOLEAN :
          WsEncoded(r, ev, code, rmOk)
    \/ \E r \in Reqs, out \in CallOutcomes, base \in DownloadBases, rmOk \in BOOLEAN :
          WsStorageCall(r, out, base, rmOk)
    \/ \E r \in Reqs, out \in CallOutcomes, statOk \in BOOLEAN, rmOk \in BOOLEAN :
          WsHashed(r, out, statOk, rmOk)
    \/ \E r \in Reqs, out \in UploadOutcomes, rmOk1 \in BOOLEAN,
          tail \in TailOutcomes, rmOk2 \in BOOLEAN :
          WsUploaded(r, out, rmOk1, tail, rmOk2)

\* --------------------------------------------- the first handler (37-92)
AudioFile == <<"audio.mp3", 0>>
ListFile == <<"ffmpeg_input.txt", 0>>
OutputFile == <<"output.mp4", 0>>
ImgFile(i) == <<"img.jpg", i>>

\* imgFiles (line 50) as the sequence the exit handler walks
ImgFiles(n) == [i \in 1..n |-> ImgFile(i)]

\* request r writes or deletes the fixed file f that a live request owns
ForeignFile(r, f) == cwdOwner[f] \notin {NoOwner, r} /\ Live(cwdOwner[f])

\* downloadFile opens its destination once the response is ok (line 19)
Written(out) == out \in {"ok", "pipeFail"}

\* the catch block of the first handler (lines 88-91)
CatchFixed(r, e) ==
    /\ responses' = [responses EXCEPT ![r] = Send(@, Resp500(e)).resp]
    /\ err' = [err EXCEPT ![r] = e]
    /\ pc' = [pc EXCEPT ![r] = "done"]

\* fs.unlinkSync over files in turn (lines 79-81): a missing file throws
RECURSIVE UnlinkAll(_, _)
UnlinkAll(fs, files) ==
    IF files = <<>> THEN [fs |-> fs, threw |-> FALSE, gone |-> {}]
    ELSE IF fs[Head(files)] = NoOwner THEN [fs |-> fs, threw |-> TRUE, gone |-> {}]
    ELSE LET rest == UnlinkAll([fs EXCEPT ![Head(files)] = NoOwner], Tail(files))
         IN  [rest EXCEPT !.gone = @ \cup {Head(files)}]

\* lines 38-49: validation, then the audio download is started
FxRequest(r, b) ==
    /\ handler = "fixed" /\ ~crashed /\ pc[r] = "idle"
    /\ IF ~Validate(b)
       THEN /\ responses' = [responses EXCEPT ![r] = Send(@, Resp400).resp]
            /\ pc' = [pc EXCEPT ![r] = "done"]
       ELSE /\ pc' = [pc EXCEPT ![r] = "fetchAudio"]
            /\ UNCHANGED responses
    /\ body' = [body EXCEPT ![r] = b]
    /\ UNCHANGED <<handler, probe, outFile, upload, tmpDir, idx, inflight, duration, plan, err, dirOwner,
                   cwdOwner, rmCalls, trace, failedAt, clash, crashed>>

\* lines 49-51: the audio download settled; Promise.all starts every image
FxAudioDownloaded(r, out) ==
    /\ handler = "fixed" /\ ~crashed /\ pc[r] = "fetchAudio"
    /\ cwdOwner' = IF Written(out) THEN [cwdOwner EXCEPT ![AudioFile] = r] ELSE cwdOwner
    /\ clash' = (clash \/ (Written(out) /\ ForeignFile(r, AudioFile)))
    /\ LET e == DownloadFile(out, 0)
       IN  IF e # NoErr
           THEN CatchFixed(r, e) /\ UNCHANGED inflight
           ELSE /\ inflight' = [inflight EXCEPT ![r] = 1..NImages(r)]
                /\ pc' = [pc EXCEPT ![r] = "fetchImgs"]
                /\ UNCHANGED <<responses, err>>
    /\ UNCHANGED <<handler, probe, outFile, upload, body, tmpDir, idx, duration, plan, dirOwner, rmCalls,
                   trace, failedAt, crashed>>

\* line 51: one download of Promise.all settled; the first rejection is
\* caught while the other downloads go on, the last success starts the probe
FxImageDownloaded(r, i, out) ==
    /\ handler = "fixed" /\ ~crashed /\ i \in inflight[r]
    /\ inflight' = [inflight EXCEPT ![r] = @ \ {i}]
    /\ cwdOwner' = IF Written(out) THEN [cwdOwner EXCEPT ![ImgFile(i)] = r] ELSE cwdOwner
    /\ clash' = (clash \/ (Written(out) /\ ForeignFile(r, ImgFile(i))))
    /\ LET e == DownloadFile(out, i)
       IN  IF pc[r] # "fetchImgs" THEN UNCHANGED <<pc, responses, err>>
           ELSE IF e # NoErr THEN CatchFixed(r, e)
           ELSE /\ pc' = [pc EXCEPT ![r] =
                            IF inflight[r] = {i} THEN "probe" ELSE "fetchImgs"]
                /\ UNCHANGED <<responses, err>>
    /\ UNCHANGED <<handler, probe, outFile, upload, body, tmpDir, idx, duration, plan, dirOwner, rmCalls,
                   trace, failedAt, crashed>>

\* lines 54-87: the probe settled; the list is written, the encoder spawned
\* and its handlers registered
FxProbed(r, out, d, tieUp, wOk) ==
    /\ handler = "fixed" /\ ~crashed /\ pc[r] = "probe"
    /\ LET e == GetAudioDuration(out)
       IN  IF e # NoErr
           THEN CatchFixed(r, e) /\ UNCHANGED <<duration, plan, cwdOwner, clash>>
           ELSE /\ duration' = [duration EXCEPT ![r] = d]
                /\ IF wOk
                   THEN /\ plan' = [plan EXCEPT ![r] =
                                      ConcatListFixed(NImages(r), d, tieUp)]
                        /\ cwdOwner' = [cwdOwner EXCEPT ![ListFile] = r]
                        /\ clash' = (clash \/ ForeignFile(r, ListFile))
                        /\ pc' = [pc EXCEPT ![r] = "encoding"]
                        /\ UNCHANGED <<responses, err>>
                   ELSE CatchFixed(r, WriteErr) /\ UNCHANGED <<plan, cwdOwner, clash>>
    /\ UNCHANGED <<handler, probe, outFile, upload, body, tmpDir, idx, inflight, dirOwner, rmCalls,
                   trace, failedAt, crashed>>

\* line 75: the encoder emitted error
FxEncoderError(r) ==
    /\ handler = "fixed" /\ ~crashed /\ pc[r] = "encoding"
    /\ LET snd == Send(responses[r], Resp500(SpawnErr))
       IN  /\ responses' = [responses EXCEPT ![r] = snd.resp]
           /\ crashed' = snd.threw
    /\ pc' = [pc EXCEPT ![r] = "errored"]
    /\ UNCHANGED <<handler, probe, outFile, upload, body, tmpDir, idx, inflight, duration, plan, err,
                   dirOwner, cwdOwner, rmCalls, trace, failedAt, clash>>

\* lines 77-87: the encoder emitted exit, which may also follow error; an
\* exception in the listener is uncaught and ends the process
FxEncoderExit(r, code) ==
    /\ handler = "fixed" /\ ~crashed /\ pc[r] \in {"encoding", "errored"}
    /\ LET ran == pc[r] = "encoding"
           fs0 == IF ran THEN [cwdOwner EXCEPT ![OutputFile] = r] ELSE cwdOwner
           un == UnlinkAll(fs0, <<ListFile, AudioFile>> \o ImgFiles(NImages(r)))
           snd == Send(responses[r],
                       IF code # 0 THEN Resp500(ExitErr(code)) ELSE Resp200)
       IN  /\ cwdOwner' = un.fs
           /\ clash' = (clash \/ (ran /\ ForeignFile(r, OutputFile))
                              \/ \E f \in un.gone : ForeignFile(r, f))
           /\ IF un.threw
              THEN crashed' = TRUE /\ UNCHANGED <<pc, responses>>
              ELSE /\ responses' = [responses EXCEPT ![r] = snd.resp]
                   /\ crashed' = snd.threw
                   /\ pc' = [pc EXCEPT ![r] = IF snd.threw THEN @ ELSE "done"]
    /\ UNCHANGED <<handler, probe, outFile, upload, body, tmpDir, idx, inflight, duration, plan, err,
                   dirOwner, rmCalls, trace, failedAt>>

FxNext ==
    \/ \E r \in Reqs, b \in Bodies : FxRequest(r, b)
    \/ \E r \in Reqs, out \in DownloadOutcomes : FxAudioDownloaded(r, out)
    \/ \E r \in Reqs, i \in 1..MaxImages, out \in DownloadOutcomes :
          FxImageDownloaded(r, i, out)
    \/ \E r \in Reqs, out \in ProbeOutcomes, d \in Durations,
          tieUp \in BOOLEAN, wOk \in BOOLEAN : FxProbed(r, out, d, tieUp, wOk)
    \/ \E r \in Reqs : FxEncoderError(r)
    \/ \E r \in Reqs, code \in ExitCodes : FxEncoderExit(r, code)

Next == WsNext \/ FxNext

Spec == Init /\ [][Next]_vars

\* ------------------------------------------- the concat plan on its own
\* the stages up to the probe of a request of n images
FetchStages(n) ==
    <<Stage("fetchAudio", 0)>> \o [i \in 1..n |-> Stage("fetchImg", i)]

\* the request whose plan SpecPlan builds
First == CHOOSE r \in Reqs : \A q \in Reqs : r <= q

\* the first request has downloaded its n images and awaits the probe; the
\* others have not arrived
AtProbe(n) ==
    /\ handler = "ws"
    /\ body = [r \in Reqs |-> IF r = First
                               THEN [isArray |-> TRUE, len |-> n, audioUrl |-> TRUE]
                               ELSE NoBody]
    /\ trace = [r \in Reqs |-> IF r = First
                                THEN Append(FetchStages(n), Stage("probe", 0))
                                ELSE <<>>]
    /\ pc = [r \in Reqs |-> IF r = First THEN "probe" ELSE "idle"]
    /\ tmpDir = [r \in Reqs |-> IF r = First THEN 1 ELSE NoDir]
    /\ dirOwner = [d \in Dirs |-> IF d = 1 THEN First ELSE NoOwner]
    /\ idx = [r \in Reqs |-> 0]
    /\ inflight = [r \in Reqs |-> {}]
    /\ duration = [r \in Reqs |-> 0]
    /\ plan = [r \in Reqs |-> <<>>]
    /\ err = [r \in Reqs |-> NoErr]
    /\ responses = [r \in Reqs |-> <<>>]
    /\ cwdOwner = [f \in FixedFiles |-> NoOwner]
    /\ rmCalls = [r \in Reqs |-> 0]
    /\ failedAt = [r \in Reqs |-> {}]
    /\ clash = FALSE
    /\ crashed = FALSE
    /\ outFile = [d \in Dirs |-> NoBytes]
    /\ upload = [r \in Reqs |-> NoUpload]

InitPlan ==
    /\ \E n \in 1..MaxPlanImages : AtProbe(n)
    /\ probe = NoProbe

NextPlan ==
    \E r \in Reqs, out \in ProbeOutcomes, d \in PlanDurations,
       tieUp \in BOOLEAN, wOk \in BOOLEAN, rmOk \in BOOLEAN :
       WsProbed(r, out, d, tieUp, wOk, rmOk)

SpecPlan == InitPlan /\ [][NextPlan]_vars

\* ---------------------------------------------- getAudioDuration on its own
\* the first request has called getAudioDuration: the subprocess could not be
\* started, or it runs and writes one of the streams
InitProbe ==
    /\ AtProbe(1)
    /\ \E st \in BOOLEAN, s \in Streams :
          /\ st \/ s = <<>>
          /\ probe = [started |-> st, stream |-> s, read |-> 0, events |-> {},
                      promise |-> <<"pending", 0>>, settled |-> 0]

NextProbe ==
    \/ ProbeData
    \/ \E code \in ExitCodes : ProbeExit(code)
    \/ ProbeError

SpecProbe == InitProbe /\ [][NextProbe]_vars

\* ------------------------------------------------------------ the claims
Terminal(r) == pc[r] \in {"done", "rejected"}
Range(f) == {f[i] : i \in DOMAIN f}
Last(f) == f[Len(f)]
NoRepeat(f) == \A i, j \in DOMAIN f : f[i] = f[j] => i = j
IsPrefix(f, g) == Len(f) <= Len(g) /\ \A i \in DOMAIN f : f[i] = g[i]
Abs(x) == IF x < 0 THEN -x ELSE x

\* the request had a workspace and the handler has sent a response
Responded(r) == handler = "ws" /\ tmpDir[r] # NoDir /\ responses[r] # <<>>
\* the workspace of request r is still on disk
WorkspaceExists(r) == tmpDir[r] # NoDir /\ dirOwner[tmpDir[r]] = r

\* C1: in the workspace handler, whenever the handler has sent its response
\* (200 or 500) for a request that passed validation, the workspace directory
\* of that request is no longer on disk, whichever stage failed or none.
C1_ResponseAfterRemoval ==
    \A r \in Reqs : Responded(r) => ~WorkspaceExists(r)

\* C1 witness: a 500 was sent after a stage failed, and the workspace is gone
C1_Witness ==
    \E r \in Reqs :
        /\ Responded(r) /\ failedAt[r] # {}
        /\ responses[r][1].status = 500 /\ rmCalls[r] = 1
        /\ ~WorkspaceExists(r)

\* C2: in the workspace handler, rmSync of the workspace is invoked exactly
\* once per acquired workspace on every exit path: never twice, and not zero
\* times once the handler has ended.
C2_ReleaseExactlyOnce ==
    \A r \in Reqs :
        handler = "ws" /\ tmpDir[r] # NoDir =>
            /\ rmCalls[r] <= 1
            /\ Terminal(r) => rmCalls[r] = 1

\* C3: in the workspace handler, when a stage failed and the removal of the
\* workspace failed too (the directory is still there when the handler has
\* ended), the request has received a 500 carrying the stage's error.
C3_CleanupFailureKeepsError ==
    \A r \in Reqs :
        handler = "ws" /\ Terminal(r) /\ failedAt[r] # {} /\ WorkspaceExists(r) =>
            responses[r] = <<Resp500(err[r])>>

\* a body that the handlers must refuse
Invalid(b) == ~b.isArray \/ b.len = 0 \/ ~b.audioUrl

\* C4: a request whose images is no array or an empty one, or whose audioUrl
\* is falsy, is answered 400 with an error; it has no workspace, owns no file
\* and no download, subprocess or upload was started for it (both handlers).
C4_InvalidRequestRefused ==
    \A r \in Reqs :
        pc[r] # "idle" /\ Invalid(body[r]) =>
            /\ responses[r] = <<Resp400>>
            /\ pc[r] = "done"
            /\ tmpDir[r] = NoDir /\ \A d \in Dirs : dirOwner[d] # r
            /\ \A f \in FixedFiles : cwdOwner[f] # r
            /\ trace[r] = <<>> /\ inflight[r] = {} /\ rmCalls[r] = 0

\* C4 witness: images is a non-empty array and audioUrl is missing
C4_Witness ==
    \E r \in Reqs :
        /\ body[r].isArray /\ body[r].len > 0 /\ ~body[r].audioUrl
        /\ responses[r] = <<Resp400>>

\* C5: whenever the encoder exited with a non-zero code, the request has
\* received a 500 whose error is `ffmpeg exited <code>`, no hash or upload
\* step was performed and the workspace of the request is removed.
C5_EncoderFailure ==
    \A r \in Reqs :
        handler = "ws" /\ (\E c \in ExitCodes \ {0} : err[r] = ExitErr(c)) =>
            /\ responses[r] = <<Resp500(err[r])>>
            /\ \A st \in Range(trace[r]) : st.stage \notin {"hash", "stat", "upload"}
            /\ ~WorkspaceExists(r)

\* C6: in the workspace handler the first stage failure short-circuits the
\* pipeline: a stage that failed is the last stage ever started for the
\* request, and no stage is started twice.
C6_ShortCircuit ==
    \A r \in Reqs :
        handler = "ws" =>
            /\ \A st \in failedAt[r] : trace[r] # <<>> /\ Last(trace[r]) = st
            /\ failedAt[r] # {} => Terminal(r)
            /\ NoRepeat(trace[r])

\* C6 witness: the probe failed after the downloads and nothing followed
C6_Witness ==
    \E r \in Reqs :
        /\ handler = "ws" /\ failedAt[r] = {Stage("probe", 0)}
        /\ Last(trace[r]) = Stage("probe", 0) /\ Terminal(r)

\* the order of the stages in the try block (lines 181-235)
CodeOrder(n) ==
    FetchStages(n) \o
        <<Stage("probe", 0), Stage("plan", 0), Stage("encode", 0),
          Stage("authorize", 0), Stage("getUploadUrl", 0), Stage("hash", 0),
          Stage("stat", 0), Stage("upload", 0)>>

\* the order Fetching, Probing, Planning, Encoding, Hashing, Uploading, where
\* Uploading is authenticate, upload target, transmit
StatedOrder(n) ==
    FetchStages(n) \o
        <<Stage("probe", 0), Stage("plan", 0), Stage("encode", 0),
          Stage("hash", 0), Stage("stat", 0), Stage("authorize", 0),
          Stage("getUploadUrl", 0), Stage("upload", 0)>>

\* at most one stage of request r is active: the awaited one, started last
OneActive(r) ==
    /\ inflight[r] = {}
    /\ ~Terminal(r) /\ pc[r] # "idle" => Current(r) = Last(trace[r])
    /\ rmCalls[r] > 0 => Terminal(r)

\* C7 as stated: the stages of a request run one at a time in the order
\* Fetching, Probing, Planning, Encoding, Hashing, Uploading, CleaningUp, the
\* digest being complete before Uploading begins with the authentication.
C7_StatedOrder ==
    \A r \in Reqs :
        handler = "ws" => IsPrefix(trace[r], StatedOrder(NImages(r))) /\ OneActive(r)

\* C7 amended: the stages of a request run one at a time in the order
\* Fetching, Probing, Planning, Encoding, authentication, upload target,
\* Hashing, transmission of the bytes, CleaningUp: the digest is complete
\* before the bytes are sent, not before the authentication.
C7_CodeOrder ==
    \A r \in Reqs :
        handler = "ws" => IsPrefix(trace[r], CodeOrder(NImages(r))) /\ OneActive(r)

\* C7 witness: a request ran every stage and was answered 200
C7_Witness ==
    \E r \in Reqs :
        /\ handler = "ws" /\ trace[r] = CodeOrder(NImages(r))
        /\ responses[r] = <<Resp200>> /\ rmCalls[r] = 1

\* C8: every 200 response carries a videoUrl and is sent only when every
\* stage of the request was started and none failed; once a stage has failed
\* every response sent is a 500 without videoUrl.
C8_SuccessOnlyIfAllStagesOk ==
    \A r \in Reqs :
        handler = "ws" =>
            \A k \in DOMAIN responses[r] :
                LET p == responses[r][k]
                IN  /\ p.status = 200 =>
                        /\ p.videoUrl
                        /\ failedAt[r] = {}
                        /\ trace[r] = CodeOrder(NImages(r))
                    /\ failedAt[r] # {} => p.status = 500 /\ ~p.videoUrl

\* C8 witness: the upload was answered with a non-success status and the
\* request got a 500
C8_Witness ==
    \E r \in Reqs :
        /\ handler = "ws" /\ failedAt[r] = {Stage("upload", 0)}
        /\ err[r] = UploadErr /\ responses[r] = <<Resp500(UploadErr)>>

\* C9: no request writes, overwrites or deletes a file of another request
\* that is being processed at the same time, in either handler.
C9_NoSharedFiles == ~clash

RECURSIVE SumDur(_)
SumDur(entries) ==
    IF entries = <<>> THEN 0 ELSE Head(entries).dur + SumDur(Tail(entries))

\* every entry of the plan of request r carries the same duration
Uniform(r) == \A i \in DOMAIN plan[r] : plan[r][i].dur = plan[r][1].dur

\* C10 as stated: every entry of the concat plan carries the same duration and
\* the sum of the written durations differs from D by at most 0.001 s.
C10_SumWithinOneUnit ==
    \A r \in Reqs :
        handler = "ws" /\ plan[r] # <<>> =>
            /\ Uniform(r)
            /\ Abs(SumDur(plan[r]) * TicksPerMs - duration[r]) <= TicksPerMs

\* C10 amended: every entry of the concat plan carries the same duration, a
\* thousandth nearest to D/N, and the sum of the N written durations differs
\* from D by at most N half thousandths (N * 0.0005 s).
C10_SumWithinHalfUnitPerEntry ==
    \A r \in Reqs :
        handler = "ws" /\ plan[r] # <<>> =>
            /\ Len(plan[r]) = NImages(r)
            /\ Uniform(r)
            /\ \A i \in DOMAIN plan[r] :
                  2 * Abs(plan[r][i].dur * NImages(r) * TicksPerMs - duration[r])
                      <= NImages(r) * TicksPerMs
            /\ 2 * Abs(SumDur(plan[r]) * TicksPerMs - duration[r])
                  <= NImages(r) * TicksPerMs

\* C10 witness: a plan of three or more entries whose sum is off by more than
\* one thousandth
C10_Witness ==
    \E r \in Reqs :
        /\ handler = "ws" /\ Len(plan[r]) >= 3
        /\ Abs(SumDur(plan[r]) * TicksPerMs - duration[r]) > TicksPerMs

\* C11: the concat plan written for a request has exactly one entry per
\* requested image, the i-th entry naming the file of the i-th image URL and
\* carrying a duration, with no extra trailing entry, in both handlers.
C11_OneEntryPerImage ==
    \A r \in Reqs :
        plan[r] # <<>> =>
            /\ Len(plan[r]) = NImages(r)
            /\ \A i \in DOMAIN plan[r] : plan[r][i].file = i /\ plan[r][i].dur >= 0

\* the time the complete stderr stream of the probe carries
HasMarker(p) == Matches(p.stream) # {}

\* C12: once getAudioDuration has settled, it has resolved with
\* hours*3600 + minutes*60 + seconds if the complete stderr stream of a started
\* subprocess contains the marker, whatever the exit code and however the data
\* events interleave with exit; it has rejected exactly when the marker is
\* absent or the subprocess could not be started; and it settled once.
C12_ProbeResult ==
    probe.promise[1] \notin {"none", "pending"} =>
        /\ probe.settled = 1
        /\ IF probe.started /\ HasMarker(probe)
           THEN probe.promise = <<"resolved", Seconds(Match(probe.stream))>>
           ELSE probe.promise[1] = "rejected"

\* C15: when a request has ended (response sent, handler finished), none of
\* its downloads is still running; a failed image fetch does not let the
\* request finish while other fetches of the same request are in flight.
C15_NothingRunsAfterEnd ==
    \A r \in Reqs :
        pc[r] = "done" /\ responses[r] # <<>> => inflight[r] = {}

\* the files request r of the first handler created and still has on disk
FilesOf(r) ==
    {f \in {AudioFile, ListFile} \cup Range(ImgFiles(MaxImages)) : cwdOwner[f] = r}

\* C16: in the first handler, once the handler has ended and no download of
\* the request is running, none of audio.mp3, img<i>.jpg, ffmpeg_input.txt
\* created by the request is left, whichever way the request ended.
C16_FixedFilesRemoved ==
    \A r \in Reqs :
        handler = "fixed" /\ pc[r] = "done" /\ inflight[r] = {} => FilesOf(r) = {}

StepOf(r) ==
    \/ \E out \in DownloadOutcomes, rmOk \in BOOLEAN : WsDownloaded(r, out, rmOk)
    \/ \E out \in ProbeOutcomes, d \in Durations, tieUp \in BOOLEAN,
          wOk \in BOOLEAN, rmOk \in BOOLEAN : WsProbed(r, out, d, tieUp, wOk, rmOk)
    \/ \E ev \in EncoderEvents, code \in ExitCodes, rmOk \in BOOLEAN :
          WsEncoded(r, ev, code, rmOk)
    \/ \E out \in CallOutcomes, base \in DownloadBases, rmOk \in BOOLEAN :
          WsStorageCall(r, out, base, rmOk)
    \/ \E out \in CallOutcomes, statOk \in BOOLEAN, rmOk \in BOOLEAN :
          WsHashed(r, out, statOk, rmOk)
    \/ \E out \in UploadOutcomes, rmOk1 \in BOOLEAN, tail \in TailOutcomes,
          rmOk2 \in BOOLEAN : WsUploaded(r, out, rmOk1, tail, rmOk2)
    \/ \E out \in DownloadOutcomes : FxAudioDownloaded(r, out)
    \/ \E i \in 1..MaxImages, out \in DownloadOutcomes : FxImageDownloaded(r, i, out)
    \/ \E out \in ProbeOutcomes, d \in Durations, tieUp \in BOOLEAN,
          wOk \in BOOLEAN : FxProbed(r, out, d, tieUp, wOk)
    \/ FxEncoderError(r)
    \/ \E code \in ExitCodes : FxEncoderExit(r, code)

\* C18: a request that passed validation and has no response yet is never
\* left with nothing to wait for: some external operation of the request is
\* pending, whose completion lets the handler go on towards a response.
C18_NeverSuspended ==
    \A r \in Reqs :
        pc[r] # "idle" /\ Validate(body[r]) /\ responses[r] = <<>> =>
            ENABLED StepOf(r)

\* C13: for every upload whose body was streamed, the digest and the length
\* sent in the headers are those of the bytes streamed as the body, which are
\* the bytes the encoder of this request wrote: the output file did not
\* change between hashing, reading the size and streaming, also with another
\* request running.
C13_DigestOfBytesSent ==
    \A r \in Reqs :
        handler = "ws" /\ upload[r].sent =>
            /\ upload[r].sha1 = upload[r].body
            /\ upload[r].size = upload[r].body
            /\ upload[r].body = r

\* C13 witness: a request streamed its body after another request, still
\* being processed, had its encoder write an output file
C13_Witness ==
    \E r, q \in Reqs :
        /\ r # q /\ handler = "ws" /\ upload[r].sent /\ upload[r].body = r
        /\ tmpDir[q] # NoDir /\ outFile[tmpDir[q]] = q /\ ~Terminal(q)

\* the object name the storage service stores for a file-name header: the
\* header percent-decoded
StoredName(header) == [header EXCEPT !.sep = IF @ = "%2F" THEN "/" ELSE @]

\* C14: on success videoUrl is downloadBase/file/bucketName/objectName with
\* the downloadBase this request's authorize step returned and the
\* videos/<uuid>.mp4 name made for this request, which no other request has
\* and which is the object the upload's file-name header denotes.
C14_PublicUrl ==
    \A r \in Reqs :
        handler = "ws" /\ Resp200 \in Range(responses[r]) =>
            LET u == upload[r]
            IN  /\ u.downloadUrl \in DownloadBases
                /\ u.fileName.dir = "videos" /\ u.fileName.sep = "/"
                /\ \A q \in Reqs \ {r} : upload[q].fileName # u.fileName
                /\ StoredName(u.header) = u.fileName
                /\ u.publicUrl = [base |-> u.downloadUrl, bucket |-> BucketName,
                                  name |-> StoredName(u.header)]

\* C14 witness: two requests succeeded, their authorize steps having returned
\* different download bases
C14_Witness ==
    \E r, q \in Reqs :
        /\ handler = "ws" /\ responses[r] = <<Resp200>> /\ responses[q] = <<Resp200>>
        /\ upload[r].downloadUrl # upload[q].downloadUrl
        /\ upload[r].publicUrl.base = upload[r].downloadUrl
        /\ upload[q].publicUrl.base = upload[q].downloadUrl
====
